---- MODULE Spec2Model ----
(***************************************************************************)
(* Windsurf Chess (AI vs AI): the game loop of class Game                  *)
(* (src/js/settings.js), the provider routing of callAIModel               *)
(* (src/js/o-models.js) and the Grok transport (src/css/style.css).        *)
(*                                                                         *)
(* Every button handler, timer callback and continuation of an awaited AI  *)
(* call runs to completion on the single JavaScript thread, so each is one *)
(* action.  A handler is written as an operator from a machine record M    *)
(* (the fields of Game, the pending timers and the suspended calls) to the *)
(* machine record after it ran; an action commits the record its handler   *)
(* returns.                                                                *)
(*                                                                         *)
(* Temperatures are in tenths (7 is 0.7).                                  *)
(***************************************************************************)
EXTENDS Integers, Sequences, FiniteSets, Bags, TLC

\* chess, gameState, settings, moveTimer and retryCount are the fields of
\* Game.  timers counts the pending setTimeout callbacks and inflight is the
\* bag of suspended makeNextMove calls.  Two history variables record what
\* the program did: attempts counts the requests sent for the current ply
\* (from its first request until the move is accepted, the ply is given up
\* or the game is reset; it stops counting one above maxRetries), and
\* lastOp says which branch the last handler took and which request it sent.
\* games is the stored list of GameHistory.  input and output hold the
\* arguments and the progress of one call of a function that is examined
\* on its own (extractValidChessMove, streamGrokResponse, callAIModel's
\* request building); the game leaves them alone.
VARIABLES chess, gameState, settings, moveTimer, retryCount,
          timers, inflight, attempts, lastOp, games, input, output

vars == <<chess, gameState, settings, moveTimer, retryCount,
          timers, inflight, attempts, lastOp, games, input, output>>

-----------------------------------------------------------------------------
(* Bounds of the model *)

\* plies after which the rules engine declares a draw
DrawPly == 2
\* suspended AI calls plus pending timers that may exist at once
MaxConcurrent == 2

-----------------------------------------------------------------------------
(* Program constants *)

DefaultTemperature == 7
DefaultMaxTokens == 2048
TemperatureStep == 3
TemperatureCeiling == 10
TokenStep == 500
TokenCeiling == 4096
XaiRetryTokens == 1024
OModelDefaultTokens == 150

Players == {"white", "black"}

Opponent(p) == IF p = "white" THEN "black" ELSE "white"

Min(a, b) == IF a <= b THEN a ELSE b

\* this.moveTimer: null, the handle of a pending timer, or the handle of a
\* timer that has fired (clearTimeout of it does nothing)
Null == "null"
Armed == "armed"
Fired == "fired"
NoPrompt == [kind |-> "none", fen |-> << >>, pieces |-> << >>, legal |-> {}]
NoTemperature == -1

-----------------------------------------------------------------------------
(* The rules engine (chess.js), reduced to a small game: the side to move  *)
(* may always play Nd4, Black may also play the mating Qh4, and the        *)
(* position is a draw after DrawPly plies.  A position is the sequence of  *)
(* moves played from the start position.                                   *)

StartPosition == << >>

InCheckmate(pos) == Len(pos) > 0 /\ pos[Len(pos)] = "Qh4"

GameOver(pos) == InCheckmate(pos) \/ Len(pos) >= DrawPly

Turn(pos) == IF Len(pos) % 2 = 0 THEN "white" ELSE "black"

ChessMoves(pos) ==
    IF GameOver(pos) THEN {}
    ELSE IF Turn(pos) = "white"
         THEN {"Nd4"}
         ELSE {"Nd4", "Qh4"}

\* chess.move(m): the new position, or null and the position untouched
ChessMove(pos, m) ==
    IF m \in ChessMoves(pos)
    THEN [ok |-> TRUE, pos |-> Append(pos, m), san |-> m]
    ELSE [ok |-> FALSE, pos |-> pos, san |-> ""]

\* chess.fen(): the moves played determine placement and side to move
Fen(pos) == pos

\* describeBoardState(): the piece inventory of the position
DescribeBoardState(pos) == pos

-----------------------------------------------------------------------------
(* Settings *)

\* values of the settings form the model draws from: the temperature
\* slider runs from 0 to 2.0, the token field from 100 to 4096, the
\* retries field from 1 to 10
CeilingSampling == [temperature |-> 10, maxTokens |-> 4096]
LowSampling == [temperature |-> 8, maxTokens |-> 3700]
HighSampling == [temperature |-> 15, maxTokens |-> 3800]
FormApiKeys == {"", "xai-k"}

Player(provider, model, key, f) ==
    [provider |-> provider, model |-> model, apiKey |-> key,
     temperature |-> f.temperature, maxTokens |-> f.maxTokens,
     customPrompt |-> NoPrompt]

\* pairings of White and Black in which every route plays once
RoutePairings(key, f) ==
    { [white |-> Player("openai", "gpt-4o", key, f),
       black |-> Player("gemini", "gemini-2.0-flash-exp", "xai-k", f)],
      [white |-> Player("openai", "o4-mini", key, f),
       black |-> Player("xai", "grok-3-latest", "xai-k", f)] }

\* the same with the colours exchanged
SwappedPairings(key, f) ==
    { [white |-> Player("gemini", "gemini-2.0-flash-exp", key, f),
       black |-> Player("openai", "o4-mini", "xai-k", f)],
      [white |-> Player("xai", "grok-3-latest", key, f),
       black |-> Player("openai", "gpt-4o", "xai-k", f)] }

WithRetries(p, n) ==
    [white |-> p.white, black |-> p.black, general |-> [maxRetries |-> n]]

\* the stored settings of Spec.  The sampling values are written by
\* handleInvalidMove and read by nothing that decides a branch, so Spec
\* starts them where escalation leaves them; SpecSampling varies them.
StoredSettings ==
    { WithRetries(p, 1) :
        p \in UNION { RoutePairings(k, CeilingSampling)
                          \cup SwappedPairings(k, CeilingSampling) :
                      k \in FormApiKeys } }
    \cup
    { WithRetries(p, 3) : p \in RoutePairings("xai-k", CeilingSampling) }

\* the stored settings of SpecSampling: one pairing, a temperature below
\* and one above 1.0, token budgets below 4096
SamplingSettings ==
    { [white |-> Player("openai", "gpt-4o", "xai-k", LowSampling),
       black |-> Player("gemini", "gemini-2.0-flash-exp", "xai-k", HighSampling),
       general |-> [maxRetries |-> 3]] }

\* the characters of the model ids: the catalogue ids of the settings used,
\* and ids a stored settings object may hold
ModelIdChars ==
    ("gpt-4.5-preview" :> <<"g", "p", "t", "-", "4", ".", "5", "-", "p", "r",
            "e", "v", "i", "e", "w">>) @@
    ("gpt-4.1" :> <<"g", "p", "t", "-", "4", ".", "1">>) @@
    ("gpt-4o" :> <<"g", "p", "t", "-", "4", "o">>) @@
    ("o3-mini-high" :> <<"o", "3", "-", "m", "i", "n", "i", "-", "h", "i",
            "g", "h">>) @@
    ("o4-mini" :> <<"o", "4", "-", "m", "i", "n", "i">>) @@
    ("gemini-2.0-flash-exp" :> <<"g", "e", "m", "i", "n", "i", "-", "2", ".",
            "0", "-", "f", "l", "a", "s", "h", "-", "e", "x", "p">>) @@
    ("grok-3-latest" :> <<"g", "r", "o", "k", "-", "3", "-", "l", "a", "t",
            "e", "s", "t">>) @@
    ("o3-pro" :> <<"o", "3", "-", "p", "r", "o">>) @@
    ("o4-mini-high" :> <<"o", "4", "-", "m", "i", "n", "i", "-", "h", "i",
            "g", "h">>) @@
    ("o3" :> <<"o", "3">>) @@
    ("o4" :> <<"o", "4">>) @@
    ("o1-mini" :> <<"o", "1", "-", "m", "i", "n", "i">>) @@
    ("go3-x" :> <<"g", "o", "3", "-", "x">>) @@
    ("" :> << >>)

\* String.prototype.startsWith
StartsWith(text, prefix) ==
    Len(prefix) <= Len(text) /\ SubSeq(text, 1, Len(prefix)) = prefix

O_SERIES_MODELS == {"o3-mini-high", "o4-mini"}

\* isOSeriesModel
IsOSeriesModel(modelId) ==
    \/ modelId \in O_SERIES_MODELS
    \/ StartsWith(ModelIdChars[modelId], <<"o", "3", "-">>)
    \/ StartsWith(ModelIdChars[modelId], <<"o", "4", "-">>)

\* Settings.validateSettings
ValidPlayer(ps) ==
    /\ ps.provider # ""
    /\ ps.model # ""
    /\ ps.apiKey # ""
    /\ (ps.provider = "xai" => ps.apiKey = "xai-k")

ValidateSettings(st) == ValidPlayer(st.white) /\ ValidPlayer(st.black)

-----------------------------------------------------------------------------
(* What a vendor may answer to one request.  A text is reduced to the move *)
(* token it contains (tok, possibly none) and whether it also contains one *)
(* of the error phrases of extractValidChessMove.  An error message is     *)
(* reduced to the set of lower-case phrases it contains.                   *)

Tokens == {"", "Nd4", "Qh4"}

VendorMessages == { [present |-> FALSE, phrases |-> {}],
                    [present |-> TRUE,  phrases |-> {"api key"}],
                    [present |-> TRUE,  phrases |-> {"token"}] }

NoMessage == [present |-> FALSE, phrases |-> {}]

Responses ==
    { [kind |-> "ok", code |-> 200, tok |-> m, errPhrase |-> FALSE,
       vendor |-> NoMessage, reason |-> FALSE] : m \in Tokens }
    \cup
    { [kind |-> "ok", code |-> 200, tok |-> m, errPhrase |-> TRUE,
       vendor |-> NoMessage, reason |-> FALSE] : m \in Tokens \ {""} }
    \cup
    { [kind |-> k, code |-> 200, tok |-> "", errPhrase |-> FALSE,
       vendor |-> NoMessage, reason |-> FALSE] :
          k \in {"noChoices", "emptyChoices"} }
    \cup
    { h \in { [kind |-> "http", code |-> c, tok |-> "", errPhrase |-> FALSE,
                vendor |-> v, reason |-> r] :
                   c \in {401, 429}, v \in VendorMessages, r \in BOOLEAN } :
          /\ h.vendor.present => ~h.reason
          /\ h.reason => h.code = 429
          /\ "token" \in h.vendor.phrases => h.code = 429 }
    \cup
    { [kind |-> "network", code |-> 0, tok |-> "", errPhrase |-> FALSE,
       vendor |-> NoMessage, reason |-> FALSE] }

\* response.statusText, when the connection carries a reason phrase
StatusText(r) ==
    IF ~r.reason THEN {}
    ELSE IF r.code = 401 THEN {"unauthorized"}
    ELSE IF r.code = 429 THEN {"too many requests"}
    ELSE {}

CodePhrase(c) == IF c = 401 THEN {"401"} ELSE IF c = 429 THEN {"429"} ELSE {}

Returned(m) == [threw |-> FALSE, move |-> m, msg |-> {}]
Thrown(phrases) == [threw |-> TRUE, move |-> "", msg |-> phrases]

\* the !response.ok branch of callAIModel and of callOModel
HttpError(r) ==
    IF r.code = 401
    THEN Thrown({"authentication"} \cup
                (IF r.vendor.present THEN r.vendor.phrases ELSE {"api key"}))
    ELSE Thrown(CodePhrase(r.code) \cup
                (IF r.vendor.present THEN r.vendor.phrases ELSE StatusText(r)))

\* AI_MODELS.openai.parseResponse, non-streaming branch
OpenaiParseResponse(r) ==
    IF r.kind = "noChoices" THEN Thrown({})   \* data.choices[0] of undefined
    ELSE Returned(r.tok)

\* parseOModelResponse
ParseOModelResponse(r) ==
    IF r.kind \in {"noChoices", "emptyChoices"} THEN Returned("")
    ELSE Returned(r.tok)

\* AI_MODELS.gemini.parseResponse
GeminiParseResponse(r) == Returned(r.tok)

\* extractValidChessMove on the texts of Responses
ExtractValidChessMove(tok, errPhrase) == IF errPhrase THEN "" ELSE tok

\* the catch block of sendGrokRequest
GrokEnhanceError(msg) ==
    IF msg \cap {"authentication failed", "401", "unauthorized"} # {}
    THEN msg \cup {"authentication", "authentication failed", "api key"}
    ELSE IF msg \cap {"invalid model", "not found"} # {}
    THEN msg \cup {"invalid model"}
    ELSE IF msg \cap {"rate limit", "429"} # {}
    THEN msg \cup {"rate limit"}
    ELSE msg

\* sendGrokRequest followed by AI_MODELS.xai.parseResponse (non-streaming)
SendGrokRequest(r) ==
    IF r.kind = "network" THEN Thrown(GrokEnhanceError({}))
    ELSE IF r.kind = "http"
    THEN Thrown(GrokEnhanceError(IF r.vendor.present THEN r.vendor.phrases
                                 ELSE {"error"} \cup CodePhrase(r.code)))
    ELSE IF r.kind \in {"noChoices", "emptyChoices"}
    THEN Thrown(GrokEnhanceError({"invalid"}))
    ELSE Returned(ExtractValidChessMove(
                    ExtractValidChessMove(r.tok, r.errPhrase), FALSE))

\* the inner catch of callAIModel for xai
XaiRethrow(res) ==
    IF ~res.threw THEN res
    ELSE IF "api authentication failed" \in res.msg
    THEN Thrown({"authentication", "api key"})
    ELSE IF "rate limit" \in res.msg
    THEN Thrown({"rate limit"})
    ELSE res

\* callAIModel once the request is on the wire: what the awaited call
\* gives back for response r
CallAIModel(provider, model, r) ==
    IF provider = "openai" /\ IsOSeriesModel(model)
    THEN IF r.kind = "network" THEN Thrown({})
         ELSE IF r.kind = "http" THEN HttpError(r)
         ELSE ParseOModelResponse(r)
    ELSE IF provider = "xai" THEN XaiRethrow(SendGrokRequest(r))
    ELSE IF r.kind = "network" THEN Thrown({})
    ELSE IF r.kind = "http" THEN HttpError(r)
    ELSE IF provider = "openai" THEN OpenaiParseResponse(r)
    ELSE GeminiParseResponse(r)

\* the branch the catch block of makeNextMove takes for an error message
ErrorClass(msg) ==
    IF msg \cap {"authentication", "api key", "unauthorized", "token"} # {}
    THEN "auth"
    ELSE IF msg \cap {"rate limit", "too many requests"} # {}
    THEN "rate"
    ELSE "other"

-----------------------------------------------------------------------------
(* Prompts and wire requests *)

\* the default user prompt of every requestFormat: position and history
StandardPrompt(pos, history) ==
    [kind |-> "standard", fen |-> Fen(pos), pieces |-> << >>, legal |-> {}]

\* the customPrompt handleInvalidMove writes into the player's settings:
\* position, piece inventory and legal moves (the text of the rejected
\* move, which nothing reads back, is not kept)
EnrichedPrompt(pos, moveString) ==
    [kind |-> "enriched", fen |-> Fen(pos), pieces |-> DescribeBoardState(pos),
     legal |-> ChessMoves(pos)]

\* the config object makeNextMove hands to callAIModel; the general
\* settings have no temperature, maxTokens or streaming field
Config(ps, rc, pos) ==
    [apiKey |-> ps.apiKey, model |-> ps.model,
     temperature |-> DefaultTemperature, maxTokens |-> DefaultMaxTokens,
     streaming |-> FALSE, userPrompt |-> ps.customPrompt,
     customPrompt |-> NoPrompt, retryCount |-> rc,
     legalMoves |-> ChessMoves(pos)]

\* `a || b` on an optional prompt
OrElse(a, b) == IF a.kind = "none" THEN b ELSE a

\* a generateOModelRequest that also sends the temperature
GenerateOModelRequestWithTemperature(pos, history, config) ==
    [temperature |-> config.temperature, maxTokens |-> config.maxTokens,
     tokenField |-> "max_completion_tokens",
     prompt |-> OrElse(config.userPrompt, StandardPrompt(pos, history))]

\* generateOModelRequest: config.maxTokens || 150
GenerateOModelRequest(pos, history, config) ==
    [temperature |-> NoTemperature,
     maxTokens |-> IF config.maxTokens = 0 THEN OModelDefaultTokens
                   ELSE config.maxTokens,
     tokenField |-> "max_completion_tokens",
     prompt |-> OrElse(config.userPrompt, StandardPrompt(pos, history))]

\* AI_MODELS.openai.requestFormat: max_completion_tokens alone for an id
\* that starts with o4- or o3-, temperature and max_tokens otherwise
OpenaiRequestFormat(pos, history, config) ==
    IF \/ StartsWith(ModelIdChars[config.model], <<"o", "4", "-">>)
       \/ StartsWith(ModelIdChars[config.model], <<"o", "3", "-">>)
    THEN [temperature |-> NoTemperature, maxTokens |-> config.maxTokens,
          tokenField |-> "max_completion_tokens",
          prompt |-> OrElse(config.userPrompt, StandardPrompt(pos, history))]
    ELSE [temperature |-> config.temperature, maxTokens |-> config.maxTokens,
          tokenField |-> "max_tokens",
          prompt |-> OrElse(config.userPrompt, StandardPrompt(pos, history))]

\* AI_MODELS.xai.requestFormat on a first attempt (it throws on a retry,
\* see XaiRequestFormatThrows)
XaiRequestFormat(pos, history, config) ==
    [temperature |-> config.temperature,
     maxTokens |-> IF config.retryCount > 0 THEN XaiRetryTokens
                   ELSE config.maxTokens,
     tokenField |-> "max_tokens",
     prompt |-> OrElse(config.customPrompt, StandardPrompt(pos, history))]

\* the assignment to the undeclared cleanOptions raises a ReferenceError
XaiRequestFormatThrows(config) == config.retryCount > 0

\* AI_MODELS.gemini.requestFormat
GeminiRequestFormat(pos, history, config) ==
    [temperature |-> config.temperature, maxTokens |-> config.maxTokens,
     tokenField |-> "maxOutputTokens",
     prompt |-> StandardPrompt(pos, history)]

\* the request callAIModel puts on the wire
RequestFor(provider, pos, history, config) ==
    IF provider = "openai" /\ IsOSeriesModel(config.model)
    THEN GenerateOModelRequest(pos, history, config)
    ELSE IF provider = "openai" THEN OpenaiRequestFormat(pos, history, config)
    ELSE IF provider = "xai" THEN XaiRequestFormat(pos, history, config)
    ELSE GeminiRequestFormat(pos, history, config)

\* callAIModel rejects before any request is sent
ThrowsBeforeFetch(provider, config) ==
    \/ provider \notin {"openai", "xai", "gemini"}
    \/ provider = "xai" /\ XaiRequestFormatThrows(config)
    \/ provider = "xai" /\ config.apiKey = ""

\* the message of that error: sendGrokRequest asks for the API key, the
\* other two are an unknown provider and the ReferenceError
BeforeFetchMessage(provider, config) ==
    IF provider = "xai" /\ ~XaiRequestFormatThrows(config) /\ config.apiKey = ""
    THEN {"api key"}
    ELSE {}

-----------------------------------------------------------------------------
(* Texts.  A text is the sequence of its characters; the regular           *)
(* expressions of extractValidChessMove are matched as the JavaScript      *)
(* engine matches them: leftmost, alternatives in order, optional elements *)
(* greedy with backtracking.                                               *)

NL == "\n"

UpperCase == <<"A", "B", "C", "D", "E", "F", "G", "H", "I", "J", "K", "L",
        "M", "N", "O", "P", "Q", "R", "S", "T", "U", "V", "W", "X", "Y", "Z">>
LowerCase == <<"a", "b", "c", "d", "e", "f", "g", "h", "i", "j", "k", "l",
        "m", "n", "o", "p", "q", "r", "s", "t", "u", "v", "w", "x", "y", "z">>
Digits == {"0", "1", "2", "3", "4", "5", "6", "7", "8", "9"}

\* String.prototype.toLowerCase, one character
ToLowerCase(c) ==
    IF \E i \in 1..Len(UpperCase) : UpperCase[i] = c
    THEN LowerCase[CHOOSE i \in 1..Len(UpperCase) : UpperCase[i] = c]
    ELSE c

\* String.prototype.toLowerCase
LowerText(t) == [i \in 1..Len(t) |-> ToLowerCase(t[i])]

\* \w of a regular expression
IsWordChar(c) ==
    \/ \E i \in 1..Len(UpperCase) : c \in {UpperCase[i], LowerCase[i]}
    \/ c \in Digits
    \/ c = "_"

\* \b at position i: between t[i-1] and t[i]
Boundary(t, i) ==
    (i > 1 /\ i - 1 <= Len(t) /\ IsWordChar(t[i - 1]))
        # (i >= 1 /\ i <= Len(t) /\ IsWordChar(t[i]))

IsSpace(c) == c \in {" ", NL}

\* String.prototype.trim
RECURSIVE TrimStart(_)
TrimStart(t) ==
    IF t # << >> /\ IsSpace(Head(t)) THEN TrimStart(Tail(t)) ELSE t

RECURSIVE TrimEnd(_)
TrimEnd(t) ==
    IF t # << >> /\ IsSpace(t[Len(t)])
    THEN TrimEnd(SubSeq(t, 1, Len(t) - 1))
    ELSE t

Trim(t) == TrimEnd(TrimStart(t))

\* String.prototype.split('\n')[0]
RECURSIVE FirstLine(_)
FirstLine(t) ==
    IF t = << >> \/ Head(t) = NL THEN << >>
    ELSE <<Head(t)>> \o FirstLine(Tail(t))

\* String.prototype.includes
Includes(t, p) ==
    \E i \in 1..(Len(t) - Len(p) + 1) : SubSeq(t, i, i + Len(p) - 1) = p

\* elements of a regular expression: one character of a set, possibly
\* optional (?) or repeated (+), a group of alternatives (a|b), each a
\* sequence of elements, or a zero-width anchor (\b, ^, $)
Ch(set) == [kind |-> "set", set |-> set, opt |-> FALSE, many |-> FALSE]
Opt(set) == [kind |-> "set", set |-> set, opt |-> TRUE, many |-> FALSE]
Many(set) == [kind |-> "set", set |-> set, opt |-> FALSE, many |-> TRUE]
Group(alts) == [kind |-> "group", alts |-> alts, capture |-> TRUE]
NonCapture(alts) == [kind |-> "group", alts |-> alts, capture |-> FALSE]
WordEdge == [kind |-> "edge", anchor |-> "word"]
TextStart == [kind |-> "edge", anchor |-> "start"]
TextEnd == [kind |-> "edge", anchor |-> "end"]

\* the elements of a literal text
Word(text) == [i \in 1..Len(text) |-> Ch({text[i]})]

NoMatch == [end |-> 0, from |-> 0]

Fold(nocase, c) == IF nocase THEN ToLowerCase(c) ELSE c

AnchorHolds(anchor, t, i) ==
    CASE anchor = "word" -> Boundary(t, i)
      [] anchor = "start" -> i = 1
      [] anchor = "end" -> i = Len(t) + 1

\* the match of the elements items at position i of t: where it ends and
\* where the last capturing group entered starts (cap so far).  Every
\* capturing group whose text is read below ends where the match ends.
RECURSIVE MatchAt(_, _, _, _, _), MatchAlts(_, _, _, _, _, _)
MatchAt(t, i, items, nocase, cap) ==
    IF items = << >> THEN [end |-> i, from |-> cap]
    ELSE
      LET item == Head(items)
          rest == Tail(items)
      IN CASE item.kind = "edge" ->
                IF AnchorHolds(item.anchor, t, i)
                THEN MatchAt(t, i, rest, nocase, cap)
                ELSE NoMatch
           [] item.kind = "group" ->
                MatchAlts(t, i, items, nocase,
                          IF item.capture THEN i ELSE cap, 1)
           [] item.kind = "set" ->
                LET takes == /\ i <= Len(t)
                             /\ \E c \in item.set :
                                   Fold(nocase, c) = Fold(nocase, t[i])
                IN IF item.many
                   THEN IF ~takes THEN NoMatch
                        ELSE LET more == MatchAt(t, i + 1, items, nocase, cap)
                             IN IF more # NoMatch THEN more
                                ELSE MatchAt(t, i + 1, rest, nocase, cap)
                   ELSE IF item.opt
                   THEN LET taken == IF takes
                                     THEN MatchAt(t, i + 1, rest, nocase, cap)
                                     ELSE NoMatch
                        IN IF taken # NoMatch THEN taken
                           ELSE MatchAt(t, i, rest, nocase, cap)
                   ELSE IF takes THEN MatchAt(t, i + 1, rest, nocase, cap)
                   ELSE NoMatch

MatchAlts(t, i, items, nocase, cap, a) ==
    IF a > Len(Head(items).alts) THEN NoMatch
    ELSE LET m == MatchAt(t, i, Head(items).alts[a] \o Tail(items),
                          nocase, cap)
         IN IF m # NoMatch THEN m
            ELSE MatchAlts(t, i, items, nocase, cap, a + 1)

\* a regular expression: its elements and its i flag
Regex(items, nocase) == [items |-> items, nocase |-> nocase]

\* the leftmost match at or after position i, with the position it starts at
RECURSIVE Search(_, _, _)
Search(t, i, re) ==
    IF i > Len(t) + 1 THEN [start |-> 0, end |-> 0, from |-> 0]
    ELSE LET m == MatchAt(t, i, re.items, re.nocase, i)
         IN IF m # NoMatch
            THEN [start |-> i, end |-> m.end, from |-> m.from]
            ELSE Search(t, i + 1, re)

\* RegExp.prototype.test
Test(t, re) == Search(t, 1, re).start # 0

\* String.prototype.match with the g flag: the matched texts, in order (no
\* expression used with it matches the empty text)
RECURSIVE MatchAll(_, _, _)
MatchAll(t, i, re) ==
    LET m == Search(t, i, re)
    IN IF m.start = 0 THEN << >>
       ELSE <<SubSeq(t, m.start, m.end - 1)>> \o MatchAll(t, m.end, re)

\* String.prototype.match without the g flag: the last capturing group of
\* the first match, if there is a match
LastGroup(t, re) ==
    LET m == Search(t, 1, re)
    IN IF m.start = 0 THEN << >> ELSE <<SubSeq(t, m.from, m.end - 1)>>

\* extractValidChessMove, on texts
Files == {"a", "b", "c", "d", "e", "f", "g", "h"}
Ranks == {"1", "2", "3", "4", "5", "6", "7", "8"}
Pieces == {"K", "Q", "R", "B", "N"}
WhiteSpace == {" ", "\t", NL}

\* [a-h]?[1-8]?x?[a-h][1-8]
Destination ==
    <<Opt(Files), Opt(Ranks), Opt({"x"}), Ch(Files), Ch(Ranks)>>

\* [\+#]?
CheckMark == <<Opt({"+", "#"})>>

\* O-O(?:-O)?
Castling == Word(<<"O", "-", "O">>) \o <<NonCapture(<<Word(<<"-", "O">>),
        << >>>>)>>

\* ([KQRBN]?[a-h]?[1-8]?x?[a-h][1-8]|O-O(?:-O)?)
MoveGroup == Group(<<<<Opt(Pieces)>> \o Destination, Castling>>)

\* the texts of errorPatterns; a character outside ASCII is written as its
\* code point
ErrorPhrases ==
    <<<<"e", "r", "r", "o", "r">>,
      <<"i", "n", "v", "a", "l", "i", "d">>,
      <<"i", "l", "l", "e", "g", "a", "l">>,
      <<"c", "a", "n", "n", "o", "t">>,
      <<"n", "o", "t", " ", "a", "l", "l", "o", "w", "e", "d">>,
      <<"U+8BA4", "U+8BC1", "U+5931", "U+8D25">>,
      <<"a", "u", "t", "h", "e", "n", "t", "i", "c", "a", "t", "i", "o", "n",
              " ", "f", "a", "i", "l", "e", "d">>,
      <<"u", "n", "a", "u", "t", "h", "o", "r", "i", "z", "e", "d">>,
      <<"a", "p", "i", " ", "k", "e", "y">>,
      <<"t", "o", "k", "e", "n">>>>

\* each is a regular expression with the i flag
errorPatterns ==
    [p \in 1..Len(ErrorPhrases) |-> Regex(Word(ErrorPhrases[p]), TRUE)]

\* /^[a-h][1-8]|[KQRBN][a-h]?[1-8]?x?[a-h][1-8]|O-O(-O)?$/
shortMovePattern ==
    Regex(<<NonCapture(<<
              <<TextStart, Ch(Files), Ch(Ranks)>>,
              <<Ch(Pieces)>> \o Destination,
              Word(<<"O", "-", "O">>) \o <<Group(<<Word(<<"-", "O">>),
                      << >>>>), TextEnd>>
           >>)>>, FALSE)

moveRegexPatterns ==
    <<Regex(<<WordEdge, Group(<<<<Ch(Pieces)>> \o Destination \o CheckMark>>),
              WordEdge>>, FALSE),
      Regex(<<WordEdge, Group(<<<<Ch(Files), Ch(Ranks)>> \o CheckMark>>),
              WordEdge>>, FALSE),
      Regex(<<WordEdge,
              Group(<<<<Ch(Files), Ch({"x"}), Ch(Files), Ch(Ranks)>>
                      \o CheckMark>>),
              WordEdge>>, FALSE),
      Regex(<<WordEdge, Group(<<Castling \o CheckMark>>), WordEdge>>, FALSE)>>

contextPatterns ==
    <<Regex(<<WordEdge,
              Group(<<Word(<<"p", "l", "a", "y">>), Word(<<"m", "o", "v",
                      "e">>), Word(<<"c", "h", "o", "o", "s", "e">>),
                      Word(<<"s", "e", "l", "e", "c", "t">>), Word(<<"b",
                              "e", "s", "t">>), Word(<<"r", "e", "c", "o",
                              "m", "m", "e", "n", "d">>),
                      Word(<<"s", "u", "g", "g", "e", "s", "t">>)>>),
              Opt({"s"}), Many(WhiteSpace), MoveGroup>>, TRUE),
      Regex(Word(<<"b", "e", "s", "t", " ", "m", "o", "v", "e", " ">>)
              \o <<Group(<<Word(<<"i", "s">>), Word(<<"w", "o", "u", "l",
                      "d", " ", "b", "e">>)>>), Ch({" "}),
                   MoveGroup>>, TRUE),
      Regex(Word(<<"I">>)
              \o <<Group(<<Word(<<"'", "l", "l">>), Word(<<" ", "w", "i",
                      "l", "l">>)>>), Ch({" "}),
                   Group(<<Word(<<"p", "l", "a", "y">>), Word(<<"m", "o",
                           "v", "e">>), Word(<<"c", "h", "o", "o", "s",
                           "e">>),
                           Word(<<"s", "e", "l", "e", "c", "t">>)>>),
                   Ch({" "}), MoveGroup>>, TRUE)>>

\* pattern.test(cleanedResponse) || (reasoningText && pattern.test(reasoningText))
ErrorDetected(cleanedResponse, reasoningText) ==
    \E p \in 1..Len(errorPatterns) :
        \/ Test(cleanedResponse, errorPatterns[p])
        \/ reasoningText # << >> /\ Test(reasoningText, errorPatterns[p])

\* extractMovesFromText: the matches of each pattern in turn
RECURSIVE ExtractMovesFromText(_, _)
ExtractMovesFromText(text, n) ==
    IF n > Len(moveRegexPatterns) THEN << >>
    ELSE MatchAll(text, 1, moveRegexPatterns[n])
           \o ExtractMovesFromText(text, n + 1)

\* the moves the contextual phrases announce
RECURSIVE ContextMoves(_, _)
ContextMoves(combinedText, n) ==
    IF n > Len(contextPatterns) THEN << >>
    ELSE LastGroup(combinedText, contextPatterns[n])
           \o ContextMoves(combinedText, n + 1)

\* potentialMoves, in the order the function collects them
PotentialMoves(cleanedResponse, reasoningText) ==
    (IF Len(cleanedResponse) < 6 /\ Test(cleanedResponse, shortMovePattern)
     THEN <<cleanedResponse>> ELSE << >>)
      \o ExtractMovesFromText(cleanedResponse, 1)
      \o (IF reasoningText # << >>
          THEN ExtractMovesFromText(reasoningText, 1) ELSE << >>)
      \o ContextMoves(cleanedResponse \o <<" ">> \o reasoningText, 1)

\* legalMoves.includes(move) || legalMoves.some(legalMove =>
\*     legalMove.toLowerCase() === move.toLowerCase())
IsLegalPotentialMove(move, legalMoves) ==
    \E k \in 1..Len(legalMoves) :
        \/ legalMoves[k] = move
        \/ LowerText(legalMoves[k]) = LowerText(move)

LegalPotentialMoves(potentialMoves, legalMoves) ==
    SelectSeq(potentialMoves, LAMBDA move : IsLegalPotentialMove(move,
            legalMoves))

\* an error check that looks at the response text only
ErrorCheckResponseOnly(cleanedResponse, reasoningText) ==
    ErrorDetected(cleanedResponse, << >>)

\* the error check of extractValidChessMove
ErrorCheck(cleanedResponse, reasoningText) ==
    ErrorDetected(cleanedResponse, reasoningText)

\* extractValidChessMove(responseText, reasoningText, legalMoves); a
\* legalMoves of null is the empty list
ExtractValidChessMoveText(responseText, reasoningText, legalMoves) ==
    LET cleanedResponse == Trim(responseText)
        potentialMoves == PotentialMoves(cleanedResponse, reasoningText)
        legalPotentialMoves == LegalPotentialMoves(potentialMoves, legalMoves)
        firstLine == Trim(FirstLine(cleanedResponse))
    IN IF responseText = << >> /\ reasoningText = << >> THEN << >>
       ELSE IF ErrorCheck(cleanedResponse, reasoningText) THEN << >>
       ELSE IF legalMoves # << >> /\ potentialMoves # << >>
               /\ legalPotentialMoves # << >>
       THEN legalPotentialMoves[1]
       ELSE IF potentialMoves # << >> THEN potentialMoves[1]
       ELSE IF Len(firstLine) > 0 /\ Len(firstLine) < 10 THEN firstLine
       ELSE cleanedResponse

-----------------------------------------------------------------------------
(* The machine record and the handlers of Game *)

Machine ==
    [chess |-> chess, gameState |-> gameState, settings |-> settings,
     moveTimer |-> moveTimer, retryCount |-> retryCount, timers |-> timers,
     inflight |-> inflight, attempts |-> attempts, lastOp |-> lastOp,
     games |-> games]

Commit(M) ==
    /\ chess' = M.chess
    /\ gameState' = M.gameState
    /\ settings' = M.settings
    /\ moveTimer' = M.moveTimer
    /\ retryCount' = M.retryCount
    /\ timers' = M.timers
    /\ inflight' = M.inflight
    /\ attempts' = M.attempts
    /\ lastOp' = M.lastOp
    /\ games' = M.games
    /\ UNCHANGED <<input, output>>

\* timers counts the pending timers; the one this.moveTimer refers to is
\* among them exactly when moveTimer = Armed
\* this.moveTimer = setTimeout(() => this.makeNextMove(), delay)
SetMoveTimer(M) ==
    [M EXCEPT !.timers = @ + 1, !.moveTimer = Armed]

\* if (this.moveTimer) { clearTimeout(this.moveTimer); this.moveTimer = null }
ClearMoveTimer(M) ==
    IF M.moveTimer = Armed
    THEN [M EXCEPT !.timers = @ - 1, !.moveTimer = Null]
    ELSE [M EXCEPT !.moveTimer = Null]

\* no function is being examined on its own
NoCall == [kind |-> "none"]

\* lastOp: what the handler that ran last did, and the request it sent
NoRequest == [temperature |-> NoTemperature, maxTokens |-> 0,
              tokenField |-> "none", prompt |-> NoPrompt]

Did(what) == [out |-> what, request |-> NoRequest]

Issued(req) == [out |-> "issued", request |-> req]

\* a handler that returns at once: nothing happened
Unchanged(M) == [M EXCEPT !.lastOp = lastOp]

\* a catch block that schedules another attempt instead of pausing
CatchErrorKeepsPlaying(M, player, msg) ==
    SetMoveTimer([M EXCEPT !.lastOp = Did(ErrorClass(msg))])

\* the catch block of makeNextMove
CatchError(M, player, msg) ==
    [M EXCEPT !.gameState.status = "paused",
              !.lastOp = Did(ErrorClass(msg))]

\* Game.makeNextMove from its try block to its await
RequestMove(M) ==
    LET player == M.gameState.currentPlayer
        ps == M.settings[player]
        history == M.gameState.moveHistory
        config == Config(ps, M.retryCount, M.chess)
        req == RequestFor(ps.provider, M.chess, history, config)
        call == [player |-> player,
                 provider |-> ps.provider, model |-> ps.model]
    IN IF ThrowsBeforeFetch(ps.provider, config)
       THEN CatchError(M, player, BeforeFetchMessage(ps.provider, config))
       ELSE [M EXCEPT !.inflight = @ (+) SetToBag({call}),
                      !.attempts =
                          Min(@ + 1, M.settings.general.maxRetries + 1),
                      !.lastOp = Issued(req)]

\* a makeNextMove that does not look at the status
MakeNextMoveUnguarded(M) == RequestMove(M)

\* Game.makeNextMove up to its await
MakeNextMove(M) ==
    IF M.gameState.status # "running"
    THEN [M EXCEPT !.lastOp = Did("notRunning")]
    ELSE RequestMove(M)

\* Game.checkGameStatus
CheckGameStatus(M) ==
    IF GameOver(M.chess)
    THEN IF InCheckmate(M.chess)
         THEN [M EXCEPT !.gameState.status = "finished",
                        !.gameState.winner = Opponent(M.gameState.currentPlayer),
                        !.gameState.result = "checkmate"]
         ELSE [M EXCEPT !.gameState.status = "finished",
                        !.gameState.result = "draw"]
    ELSE M

\* a bound branch that pauses but forgets to reset the retry counter
ExhaustedKeepsCounter(M) ==
    [M EXCEPT !.gameState.status = "paused",
              !.attempts = 0,
              !.lastOp = Did("exhausted")]

\* Game.handleInvalidMove once the retry bound is reached
HandleInvalidMoveExhausted(M) ==
    [M EXCEPT !.gameState.status = "paused",
              !.retryCount = 0,
              !.attempts = 0,
              !.lastOp = Did("exhausted")]

\* a retry branch that passes the turn to the opponent
RetryPassesTurn(M, player, moveString, rc) ==
    SetMoveTimer([M EXCEPT !.retryCount = rc,
                           !.settings[player].customPrompt =
                               EnrichedPrompt(M.chess, moveString),
                           !.gameState.currentPlayer = Opponent(player),
                           !.lastOp = Did("retry")])

\* Game.handleInvalidMove below the retry bound; rc is the incremented
\* retry counter
HandleInvalidMoveRetry(M, player, moveString, rc) ==
    LET ps == M.settings[player]
        escalate == rc > 1
        ps1 == IF escalate
               THEN [ps EXCEPT
                       !.temperature = Min(@ + TemperatureStep, TemperatureCeiling),
                       !.maxTokens = Min(@ + TokenStep, TokenCeiling)]
               ELSE ps
        ps2 == [ps1 EXCEPT !.customPrompt = EnrichedPrompt(M.chess, moveString)]
    IN SetMoveTimer([M EXCEPT !.retryCount = rc,
                              !.settings[player] = ps2,
                              !.lastOp = IF escalate THEN Did("escalated")
                                         ELSE Did("retry")])

\* Game.handleInvalidMove
HandleInvalidMove(M, player, moveString) ==
    LET rc == M.retryCount + 1
    IN IF rc >= M.settings.general.maxRetries
       THEN HandleInvalidMoveExhausted([M EXCEPT !.retryCount = rc])
       ELSE HandleInvalidMoveRetry(M, player, moveString, rc)

\* the branch of makeNextMove for a move the rules engine accepted
AcceptMove(M, player, moveResult) ==
    LET M1 == [M EXCEPT !.chess = moveResult.pos,
                        !.gameState.moveHistory = Append(@, moveResult.san)]
        M2 == CheckGameStatus(M1)
        M3 == [M2 EXCEPT !.gameState.currentPlayer = Opponent(player),
                         !.retryCount = 0,
                         !.attempts = 0,
                         !.lastOp = Did("accepted")]
    IN IF M3.gameState.status = "running" THEN SetMoveTimer(M3) ELSE M3

\* Game.makeNextMove from the return of the awaited callAIModel on
Continue(M, call, r) ==
    LET M0 == [M EXCEPT !.inflight = @ (-) SetToBag({call})]
        res == CallAIModel(call.provider, call.model, r)
        moveResult == ChessMove(M0.chess, res.move)
    IN IF res.threw THEN CatchError(M0, call.player, res.msg)
       ELSE IF moveResult.ok THEN AcceptMove(M0, call.player, moveResult)
       ELSE HandleInvalidMove(M0, call.player, res.move)

InitialGameState ==
    [status |-> "idle", currentPlayer |-> "white", moveHistory |-> << >>,
     winner |-> "none", result |-> "none"]

\* Game.startGame
StartGame(M) ==
    IF ~ValidateSettings(M.settings)
    THEN Unchanged(M)
    ELSE IF M.gameState.status \in {"idle", "paused"}
    THEN LET M1 == [M EXCEPT !.gameState.status = "running",
                             !.lastOp = Did("resumed")]
         IN IF M1.gameState.moveHistory = << >> THEN MakeNextMove(M1) ELSE M1
    ELSE Unchanged(M)

\* Game.pauseGame
PauseGame(M) ==
    IF M.gameState.status = "running"
    THEN ClearMoveTimer([M EXCEPT !.gameState.status = "paused",
                                  !.lastOp = Did("paused")])
    ELSE Unchanged(M)

\* Game.resetGame
ResetGame(M) ==
    LET M1 == ClearMoveTimer(M)
    IN [M1 EXCEPT !.chess = StartPosition,
                  !.gameState = InitialGameState,
                  !.retryCount = 0,
                  !.attempts = 0,
                  !.lastOp = Did("reset")]

\* GameHistory keeps the newest games only
HistoryLimit == 20

\* GameHistory.addGame
AddGame(stored, game) ==
    LET all == <<game>> \o stored
    IN IF Len(all) > HistoryLimit THEN SubSeq(all, 1, HistoryLimit) ELSE all

\* the record saveGameToHistory builds
GameRecord(M) ==
    [moves |-> M.gameState.moveHistory,
     finalPosition |-> Fen(M.chess),
     result |-> M.gameState.result,
     winner |-> M.gameState.winner,
     white |-> [provider |-> M.settings.white.provider,
                model |-> M.settings.white.model],
     black |-> [provider |-> M.settings.black.provider,
                model |-> M.settings.black.model]]

\* Game.saveGameToHistory; no handler and no other code calls it
SaveGameToHistory(M) ==
    [M EXCEPT !.games = AddGame(@, GameRecord(M))]

\* the values of the settings form: the ones the settings hold, with one
\* API key field edited
FormValues(st) ==
    {[white |-> [st.white EXCEPT !.apiKey = IF p = "white" THEN k ELSE @],
      black |-> [st.black EXCEPT !.apiKey = IF p = "black" THEN k ELSE @],
      maxRetries |-> st.general.maxRetries] :
        p \in Players, k \in FormApiKeys}

\* Settings.updateSettingsFromForm: every field of the form is written,
\* customPrompt is not a field of the form
UpdateSettingsFromForm(st, form) ==
    LET write(ps, f) ==
            [ps EXCEPT !.provider = f.provider, !.model = f.model,
                       !.apiKey = f.apiKey, !.temperature = f.temperature,
                       !.maxTokens = f.maxTokens]
    IN [white |-> write(st.white, form.white),
        black |-> write(st.black, form.black),
        general |-> [maxRetries |-> form.maxRetries]]

\* the click handler of Save Settings
SaveSettingsClick(M, form) ==
    [M EXCEPT !.settings = UpdateSettingsFromForm(M.settings, form),
              !.lastOp = Did("saved")]

-----------------------------------------------------------------------------
(* Actions *)

Begin == [Machine EXCEPT !.lastOp = Did("none")]

\* the user presses Start
Start ==
    /\ \/ gameState.moveHistory # << >>
       \/ BagCardinality(inflight) + timers < MaxConcurrent
    /\ Commit(StartGame(Begin))

\* the user presses Pause
Pause == Commit(PauseGame(Begin))

\* the user presses Reset
Reset == Commit(ResetGame(Begin))

\* a pending timer fires and runs makeNextMove
TimerFires ==
    \/ /\ moveTimer = Armed
       /\ Commit(MakeNextMove([Begin EXCEPT !.timers = @ - 1,
                                             !.moveTimer = Fired]))
    \/ /\ timers > (IF moveTimer = Armed THEN 1 ELSE 0)
       /\ Commit(MakeNextMove([Begin EXCEPT !.timers = @ - 1]))

\* the awaited callAIModel of a suspended makeNextMove settles
Respond ==
    \E call \in BagToSet(inflight) : \E r \in Responses :
        Commit(Continue(Begin, call, r))

\* the state after new Settings(), new Game() and game.initialize(settings),
\* with settings stored by an earlier session
InitGame(stored) ==
    /\ chess = StartPosition
    /\ gameState = InitialGameState
    /\ settings \in stored
    /\ moveTimer = Null
    /\ retryCount = 0
    /\ timers = 0
    /\ inflight = EmptyBag
    /\ attempts = 0
    /\ lastOp = Did("init")
    /\ games = << >>

InitWith(stored) ==
    /\ InitGame(stored)
    /\ input = NoCall
    /\ output = NoCall

Init == InitWith(StoredSettings)

InitSampling == InitWith(SamplingSettings)

Next == Start \/ Pause \/ Reset \/ TimerFires \/ Respond

Spec == Init /\ [][Next]_vars

SpecSampling == InitSampling /\ [][Next]_vars

\* the user presses Save Settings
SaveSettings ==
    \E form \in FormValues(settings) : Commit(SaveSettingsClick(Begin, form))

\* the stored settings that pass validateSettings
ValidStoredSettings == {st \in StoredSettings : ValidateSettings(st)}

InitSettings == InitWith(ValidStoredSettings)

NextSettings == Next \/ SaveSettings

\* the game with the settings form in use
SpecSettings == InitSettings /\ [][NextSettings]_vars

-----------------------------------------------------------------------------
(* extractValidChessMove on its own: every text of at most MaxWords words  *)
(* of Vocabulary, and some longer texts, with and without reasoning text   *)
(* and legal moves                                                         *)

MaxWords == 3

Vocabulary ==
    <<<<"I">>, <<"w", "i", "l", "l">>, <<"p", "l", "a", "y">>, <<"n", "f",
            "3">>, <<"N", "f", "3">>, <<"e", "4">>, <<"E", "r", "r", "o",
            "r">>>>

\* the texts of exactly n words, a space between two words
RECURSIVE Sentences(_)
Sentences(n) ==
    IF n = 0 THEN {<< >>}
    ELSE IF n = 1 THEN {Vocabulary[w] : w \in 1..Len(Vocabulary)}
    ELSE {s \o <<" ">> \o Vocabulary[w] :
            s \in Sentences(n - 1), w \in 1..Len(Vocabulary)}

LongerTexts ==
    {<<"E", "r", "r", "o", "r", ":", " ", "i", "n", "v", "a", "l", "i", "d",
            " ", "A", "P", "I", " ", "k", "e", "y">>,
     <<"I", " ", "t", "h", "i", "n", "k", " ", "t", "h", "e", " ", "b", "e",
             "s", "t", " ", "m", "o", "v", "e", " ", "i", "s", " ", "N", "f",
             "3", " ", "b", "e", "c", "a", "u", "s", "e", " ", "i", "t", " ",
             "d", "e", "v", "e", "l", "o", "p", "s", " ", "q", "u", "i", "c",
             "k", "l", "y", ".">>,
     <<"O", "-", "O">>,
     <<"O", "-", "O", "-", "O">>,
     <<" ", " ", "Q", "h", "4", "+", " ">>,
     <<"Q", "h", "4", "+">>,
     <<"I", "'", "l", "l", " ", "m", "o", "v", "e", " ", "O", "-", "O", "-",
             "O", " ", "n", "o", "w">>,
     <<"e", "x", "d", "5", " ", "w", "i", "n", "s">>,
     <<"h", "e", "l", "l", "o", NL, "w", "o", "r", "l", "d">>,
     <<"T", "h", "e", "r", "e", " ", "i", "s", " ", "n", "o", "t", "h", "i",
             "n", "g", " ", "t", "o", " ", "d", "o">>,
     <<"a", "2">>}

ResponseTexts == UNION {Sentences(n) : n \in 0..MaxWords} \cup LongerTexts

ReasoningTexts ==
    {<< >>, <<"T", "o", "k", "e", "n", " ", "l", "i", "m", "i", "t">>, <<"m",
            "a", "y", "b", "e", " ", "Q", "h", "4">>}

LegalMoveLists ==
    {<< >>, <<<<"N", "f", "3">>, <<"e", "4">>, <<"d", "4">>>>}

ExtractInputs ==
    [kind : {"extract"}, responseText : ResponseTexts,
     reasoningText : ReasoningTexts, legalMoves : LegalMoveLists]

InitExtract ==
    /\ InitGame(SamplingSettings)
    /\ input \in ExtractInputs
    /\ output = NoCall

\* one call of extractValidChessMove
Extract ==
    /\ input.kind = "extract"
    /\ output = NoCall
    /\ output' = [kind |-> "extract",
                  text |-> ExtractValidChessMoveText(input.responseText,
                               input.reasoningText, input.legalMoves)]
    /\ UNCHANGED <<chess, gameState, settings, moveTimer, retryCount, timers,
                   inflight, attempts, lastOp, games, input>>

SpecExtract == InitExtract /\ [][Extract]_vars

-----------------------------------------------------------------------------
(* streamGrokResponse on its own: the lines of the event stream arrive one *)
(* at a time, each at most MaxEvents lines long                            *)

MaxEvents == 3

\* checkIfChessContext: the keywords looked for in the messages
chessKeywords ==
    <<<<"c", "h", "e", "s", "s">>, <<"F", "E", "N">>, <<"m", "o", "v", "e">>,
            <<"a", "l", "g", "e", "b", "r", "a", "i", "c", " ", "n", "o",
            "t", "a", "t", "i", "o", "n">>, <<"b", "o", "a", "r", "d", " ",
            "s", "t", "a", "t", "e">>>>

CheckIfChessContext(content) ==
    \E k \in 1..Len(chessKeywords) : Includes(content, chessKeywords[k])

\* a line of the stream: a delta with content and reasoning_content, the
\* [DONE] mark, or a line JSON.parse rejects
Delta(content, reasoning) ==
    [kind |-> "delta", content |-> content, reasoning |-> reasoning]

StreamEvents ==
    {Delta(c, << >>) : c \in {<<"N">>, <<"f">>, <<"3">>, <<"N", "f", "3">>,
            <<"I", " ", "p", "l", "a", "y", " ">>}}
      \cup {Delta(<< >>, <<"h", "m">>), [kind |-> "done"], [kind |-> "junk"]}

RECURSIVE EventStreams(_)
EventStreams(n) ==
    IF n = 0 THEN {<< >>}
    ELSE {Append(es, e) : es \in EventStreams(n - 1), e \in StreamEvents}

StreamInputs ==
    [kind : {"stream"},
     model : {"grok-3-beta", "grok-3-mini-beta"},
     messages : {<<"P", "l", "a", "y", " ", "c", "h", "e", "s", "s">>, <<"H",
             "e", "l", "l", "o">>},
     events : UNION {EventStreams(n) : n \in 0..MaxEvents}]

InitStream ==
    /\ InitGame(SamplingSettings)
    /\ input \in StreamInputs
    /\ output = [kind |-> "stream", read |-> 0, fullContent |-> << >>,
                 fullReasoning |-> << >>, updates |-> << >>,
                 returned |-> FALSE, response |-> << >>]

UnchangedGame ==
    UNCHANGED <<chess, gameState, settings, moveTimer, retryCount, timers,
                inflight, attempts, lastOp, games, input>>

\* the loop body of streamGrokResponse for one line: the content grows and
\* is passed to onUpdate; for the mini model the reasoning grows and the
\* content is passed again
StreamLine ==
    /\ input.kind = "stream"
    /\ ~output.returned
    /\ output.read < Len(input.events)
    /\ LET e == input.events[output.read + 1]
           hasContent == e.kind = "delta" /\ e.content # << >>
           hasReasoning == /\ e.kind = "delta"
                           /\ input.model = "grok-3-mini-beta"
                           /\ e.reasoning # << >>
           content == IF hasContent THEN output.fullContent \o e.content
                      ELSE output.fullContent
           reasoning == IF hasReasoning
                        THEN output.fullReasoning \o e.reasoning
                        ELSE output.fullReasoning
       IN output' = [output EXCEPT
                        !.read = @ + 1,
                        !.fullContent = content,
                        !.fullReasoning = reasoning,
                        !.updates = @ \o (IF hasContent THEN <<content>>
                                          ELSE << >>)
                                     \o (IF hasReasoning THEN <<content>>
                                          ELSE << >>)]
    /\ UnchangedGame

\* reader.read() reports done: the function returns its response
StreamReturn ==
    /\ input.kind = "stream"
    /\ ~output.returned
    /\ output.read = Len(input.events)
    /\ output' = [output EXCEPT
                     !.returned = TRUE,
                     !.response =
                        IF ~CheckIfChessContext(input.messages)
                        THEN output.fullContent
                        ELSE IF input.model = "grok-3-mini-beta"
                        THEN ExtractValidChessMoveText(output.fullContent,
                                 output.fullReasoning, << >>)
                        ELSE ExtractValidChessMoveText(output.fullContent,
                                 << >>, << >>)]
    /\ UnchangedGame

NextStream == StreamLine \/ StreamReturn

SpecStream == InitStream /\ [][NextStream]_vars

-----------------------------------------------------------------------------
(* The request built for an openai player, on its own: every model id of   *)
(* OpenaiModelIds, with the configs makeNextMove builds                    *)

OpenaiModelIds ==
    {"gpt-4.5-preview", "gpt-4.1", "gpt-4o", "o3-mini-high", "o4-mini",
     "o3-pro", "o4-mini-high", "o3", "o4", "o1-mini", "go3-x", ""}

RequestInputs ==
    {[kind |-> "request", provider |-> "openai", pos |-> pos,
      config |-> Config([Player("openai", id, "xai-k", CeilingSampling)
                           EXCEPT !.customPrompt = prompt], rc, pos)] :
        id \in OpenaiModelIds,
        prompt \in {NoPrompt, EnrichedPrompt(StartPosition, "Qh4")},
        rc \in 0..1,
        pos \in {StartPosition, ChessMove(StartPosition, "Nd4").pos}}

InitRequest ==
    /\ InitGame(SamplingSettings)
    /\ input \in RequestInputs
    /\ output = NoCall

\* callAIModel up to the fetch, for an openai player
BuildRequest ==
    /\ input.kind = "request"
    /\ output = NoCall
    /\ output' = [kind |-> "request",
                  request |-> RequestFor(input.provider, input.pos,
                                         input.pos, input.config)]
    /\ UnchangedGame

SpecRequest == InitRequest /\ [][BuildRequest]_vars

-----------------------------------------------------------------------------
(* Properties *)

MaxRetries == settings.general.maxRetries

\* the step taken is the one that leaves the machine as M
StepTo(M) == Machine' = M

\* CallAIModel returned a candidate for the call and chess.move rejects it
Rejected(call, r) ==
    LET res == CallAIModel(call.provider, call.model, r)
    IN ~res.threw /\ ~ChessMove(chess, res.move).ok

\* the response is an authentication failure: HTTP 401, or an error whose
\* vendor message speaks of the API key or the token
AuthFailure(r) ==
    /\ r.kind = "http"
    /\ (r.code = 401 \/ (r.vendor.present /\ "api key" \in r.vendor.phrases))

\* C1: the game issues at most maxRetries requests for one ply, counted
\* from the ply's first request until the move is accepted or the ply is
\* given up as exhausted, and the retry counter never exceeds maxRetries.
RetryBound ==
    /\ attempts <= MaxRetries
    /\ retryCount <= MaxRetries

\* C2: a step in which chess.move rejects the candidate leaves the
\* position, the move history and the player to move as they were; they
\* change only in a step that applies an accepted move or resets the game.
RejectedMoveChangesNothing ==
    [][ /\ \/ /\ chess' = chess
              /\ gameState'.moveHistory = gameState.moveHistory
              /\ gameState'.currentPlayer = gameState.currentPlayer
           \/ \A call \in BagToSet(inflight) : \A r \in Responses :
                  ~(Rejected(call, r) /\ StepTo(Continue(Begin, call, r)))
        /\ (\/ chess' # chess
            \/ gameState'.moveHistory # gameState.moveHistory
            \/ gameState'.currentPlayer # gameState.currentPlayer)
           => lastOp'.out \in {"accepted", "reset"} ]_vars

\* C2 witness: a candidate was rejected after a move had been played
RejectedAfterAMove ==
    /\ lastOp.out \in {"retry", "escalated"}
    /\ gameState.moveHistory # << >>

\* C3: at most one AI request is in flight at any time.
AtMostOneInFlight == BagCardinality(inflight) <= 1

\* C4: right after Pause or Reset no timer of the game is pending, and the
\* return of a request that was in flight at that moment changes neither
\* the position, nor the game state (history, player to move, status),
\* nor the retry counter.
StaleCallbackChangesNothing ==
    [][ lastOp.out \in {"paused", "reset"}
        => /\ moveTimer = Null
           /\ timers = 0
           /\ Respond => /\ chess' = chess
                          /\ gameState' = gameState
                          /\ retryCount' = retryCount ]_vars

\* C5: when the rejected candidate brings the retry counter to maxRetries,
\* the game is paused, the board and the history are untouched, no timer
\* is set and no request sent, and the retry counter is back at 0.
ExhaustedPausesWithoutMove ==
    [][ retryCount + 1 = MaxRetries
        => \A call \in BagToSet(inflight) : \A r \in Responses :
          (Rejected(call, r) /\ StepTo(Continue(Begin, call, r)))
          => /\ gameState'.status = "paused"
             /\ chess' = chess
             /\ gameState'.moveHistory = gameState.moveHistory
             /\ timers' = timers
             /\ moveTimer' = moveTimer
             /\ inflight' = inflight (-) SetToBag({call})
             /\ retryCount' = 0 ]_vars

\* C5 witness: the bound of three attempts was reached after two retries
ExhaustedAfterRetries ==
    /\ lastOp.out = "exhausted"
    /\ MaxRetries = 3
    /\ gameState.status = "paused"

\* C6: an escalation step leaves the player's temperature and token
\* budget at least what they were and at most the ceilings 1.0 and 4096.
EscalationMonotone ==
    [][ \A p \in Players :
          (lastOp'.out = "escalated" /\ settings'[p] # settings[p])
          => /\ settings'[p].temperature >= settings[p].temperature
             /\ settings'[p].maxTokens >= settings[p].maxTokens
             /\ settings'[p].temperature <= TemperatureCeiling
             /\ settings'[p].maxTokens <= TokenCeiling ]_vars

\* C7: every request sent while the retry counter is at least 1 carries
\* the enriched prompt of handleInvalidMove for the current position.
RetryCarriesEnrichedPrompt ==
    (lastOp.out = "issued" /\ retryCount >= 1)
    => lastOp.request.prompt = EnrichedPrompt(chess, "")

\* C8: the temperature and the token limit of a request are the current
\* values of the player to move.
RequestUsesPlayerSampling ==
    lastOp.out = "issued"
    => LET ps == settings[gameState.currentPlayer]
       IN /\ lastOp.request.maxTokens = ps.maxTokens
          /\ lastOp.request.temperature \in {ps.temperature, NoTemperature}

\* C9: an authentication failure pauses the game at once: the retry
\* counter is as it was, no timer is set and no request sent; and a paused
\* game sends a request only when Start is pressed.
AuthFailurePauses ==
    [][ /\ \A call \in BagToSet(inflight) :
              \A r \in {x \in Responses : AuthFailure(x)} :
                  StepTo(Continue(Begin, call, r))
                  => /\ gameState'.status = "paused"
                     /\ retryCount' = retryCount
                     /\ timers' = timers
                     /\ moveTimer' = moveTimer
                     /\ inflight' = inflight (-) SetToBag({call})
        /\ (gameState.status = "paused" /\ lastOp'.out = "issued")
           => StepTo(StartGame(Begin)) ]_vars

\* C9 witness: the game is paused by an authentication failure
PausedByAuthFailure ==
    /\ lastOp.out = "auth"
    /\ gameState.status = "paused"
    /\ moveTimer # Armed

\* C10: a 200 response whose payload has no choices or candidates entry
\* is handled as an empty candidate: the step is a retry or the exhausted
\* outcome, not the error path.
MalformedPayloadRetries ==
    [][ \A call \in BagToSet(inflight) :
          \A r \in {x \in Responses : x.kind = "noChoices"} :
              StepTo(Continue(Begin, call, r))
              => lastOp'.out \in {"retry", "escalated", "exhausted"} ]_vars

\* the text holds one of the error phrases, in whatever case
HoldsErrorPhrase(text) ==
    \E p \in 1..Len(ErrorPhrases) : Includes(LowerText(text), ErrorPhrases[p])

\* the candidates extractValidChessMove collects from its input
Candidates ==
    PotentialMoves(Trim(input.responseText), input.reasoningText)

\* C11: when the response text or the reasoning text holds an error phrase,
\* in whatever case, extractValidChessMove returns the empty text, whatever
\* moves the texts name and whatever the legal moves are
ErrorPhraseGivesEmpty ==
    output.kind = "extract"
      /\ (HoldsErrorPhrase(input.responseText)
            \/ HoldsErrorPhrase(input.reasoningText))
      => output.text = << >>

\* C11 witness: a call whose response text holds an error phrase next to a
\* move that is among the legal moves given
ErrorPhraseBesideLegalMove ==
    /\ output.kind = "extract"
    /\ HoldsErrorPhrase(input.responseText)
    /\ LegalPotentialMoves(Candidates, input.legalMoves) # << >>
    /\ output.text = << >>

\* C12: when the texts hold no error phrase and one of the collected
\* candidates matches a legal move, in whatever case, the text returned is
\* one of the legal moves
ReturnsLegalMove ==
    output.kind = "extract"
      /\ ~HoldsErrorPhrase(input.responseText)
      /\ ~HoldsErrorPhrase(input.reasoningText)
      /\ LegalPotentialMoves(Candidates, input.legalMoves) # << >>
      => \E k \in 1..Len(input.legalMoves) :
            input.legalMoves[k] = output.text

\* text a is text b or the beginning of it
IsPrefix(a, b) == Len(a) <= Len(b) /\ SubSeq(b, 1, Len(a)) = a

\* C13: the content of each update of a streamed response begins with the
\* content of the update before it, and the response returned is the
\* content of the last update
StreamReturnsLastUpdate ==
    output.kind = "stream"
      => /\ \A k \in 2..Len(output.updates) :
               IsPrefix(output.updates[k - 1], output.updates[k])
         /\ output.returned /\ output.updates # << >>
               => output.response = output.updates[Len(output.updates)]

\* C14: no request is sent for a player whose settings lack the API key or
\* the model
NoRequestWithoutKey ==
    lastOp.out = "issued"
      => /\ settings[gameState.currentPlayer].apiKey # ""
         /\ settings[gameState.currentPlayer].model # ""

\* C15: whatever the vendor's message, the error handler of makeNextMove
\* takes its authentication branch for an HTTP 401 response and its
\* rate-limit branch for an HTTP 429 response
StatusCodeDecidesErrorClass ==
    [][\A call \in BagToSet(inflight) : \A r \in Responses :
          r.kind = "http" /\ StepTo(Continue(Begin, call, r))
            => lastOp'.out = IF r.code = 401 THEN "auth" ELSE "rate"]_vars

\* C16: whenever the game is finished, the stored game history holds a
\* record of it
FinishedGameIsStored ==
    gameState.status = "finished"
      => \E k \in 1..Len(games) : games[k] = GameRecord(Machine)

\* C17: for an openai model id that starts with o3- or o4- the request
\* carries the token limit in max_completion_tokens and no temperature and
\* no max_tokens; for every other openai model id it carries temperature
\* and max_tokens and no max_completion_tokens
OSeriesRequestShape ==
    output.kind = "request"
      => LET chars == ModelIdChars[input.config.model]
             req == output.request
         IN IF StartsWith(chars, <<"o", "3", "-">>)
                 \/ StartsWith(chars, <<"o", "4", "-">>)
            THEN /\ req.tokenField = "max_completion_tokens"
                 /\ req.maxTokens = input.config.maxTokens
                 /\ req.temperature = NoTemperature
            ELSE /\ req.tokenField = "max_tokens"
                 /\ req.maxTokens = input.config.maxTokens
                 /\ req.temperature = input.config.temperature

\* C17 witness: a request was built for an id that starts with o3- and is
\* not in the list of o-series models
RequestForUnlistedOSeriesId ==
    /\ output.kind = "request"
    /\ input.config.model = "o3-pro"
    /\ output.request.tokenField = "max_completion_tokens"

\* C18: a game finished by checkmate has result 'checkmate' and names as
\* winner the side that gave mate, the one that is not to move; a game
\* finished otherwise has result 'draw' and no winner
WinnerGaveMate ==
    gameState.status = "finished"
      => IF InCheckmate(chess)
         THEN /\ gameState.result = "checkmate"
              /\ gameState.winner = Opponent(Turn(chess))
         ELSE /\ gameState.result = "draw"
              /\ gameState.winner = "none"

\* C19: while the game is running and not over, a request is in flight or
\* a timer is pending
RunningHasWorkPending ==
    gameState.status = "running" /\ ~GameOver(chess)
      => BagCardinality(inflight) > 0 \/ timers > 0

\* C20: when no makeNextMove is suspended at its await, currentPlayer is
\* the side the rules engine has to move, and it is White exactly when the
\* number of moves in moveHistory is even
CurrentPlayerIsSideToMove ==
    inflight = EmptyBag
      => /\ gameState.currentPlayer = Turn(chess)
         /\ (gameState.currentPlayer = "white")
              <=> (Len(gameState.moveHistory) % 2 = 0)

\* the step is a timer firing and running makeNextMove
TimerStep ==
    \/ /\ moveTimer = Armed
       /\ StepTo(MakeNextMove([Begin EXCEPT !.timers = @ - 1,
                                            !.moveTimer = Fired]))
    \/ /\ timers > (IF moveTimer = Armed THEN 1 ELSE 0)
       /\ StepTo(MakeNextMove([Begin EXCEPT !.timers = @ - 1]))

PromptShowsCurrentBoard ==
    lastOp.out = "issued"
      => /\ lastOp.request.prompt.fen = Fen(chess)
         /\ lastOp.request.prompt.kind = "enriched"
              => lastOp.request.prompt.legal = ChessMoves(chess)

\* C23: when a ply has ended, by an accepted move or by exhausted retries,
\* the settings are the configured ones again: temperature, token limit
\* and no custom prompt, for both players
PlyEndRestoresSettings ==
    lastOp.out \in {"accepted", "exhausted"}
      => settings \in StoredSettings \cup SamplingSettings

\* C24: from a finished game every step but resetGame leaves the status
\* 'finished', the position and the move history as they are and sends no
\* request
FinishedStaysFinished ==
    [][gameState.status = "finished" /\ lastOp'.out # "reset"
          => /\ gameState'.status = "finished"
             /\ chess' = chess
             /\ gameState'.moveHistory = gameState.moveHistory
             /\ lastOp'.out # "issued"]_vars

\* C25: a request is sent only while the game is running: after a step
\* that sent one, the status is 'running'
RequestOnlyWhileRunning ==
    lastOp.out = "issued" => gameState.status = "running"

\* C25 witness: a timer fired while the game was not running, and
\* makeNextMove returned without sending a request
TimerFiredWhileNotRunning ==
    /\ lastOp.out = "notRunning"
    /\ gameState.status \in {"idle", "paused", "finished"}

\* C26: for every provider, a response whose text holds an error phrase
\* gives the empty candidate: whatever request is in flight, callAIModel
\* returns no move for such a response
ErrorPhraseGivesNoCandidate ==
    \A call \in BagToSet(inflight) : \A r \in Responses :
        r.errPhrase => CallAIModel(call.provider, call.model, r).move = ""

\* C27: when the texts hold no error phrase and no candidate was collected,
\* extractValidChessMove returns the first line of the response if that
\* line is not empty and shorter than 10 characters, and the empty text
\* otherwise
FirstLineOrEmpty ==
    output.kind = "extract"
      /\ ~HoldsErrorPhrase(input.responseText)
      /\ ~HoldsErrorPhrase(input.reasoningText)
      /\ Candidates = << >>
      => LET firstLine == Trim(FirstLine(Trim(input.responseText)))
         IN output.text = IF Len(firstLine) > 0 /\ Len(firstLine) < 10
                          THEN firstLine ELSE << >>

\* the matches of a move pattern in a text, each with the position it
\* starts at
RECURSIVE MatchPositions(_, _, _)
MatchPositions(t, i, re) ==
    LET m == Search(t, i, re)
    IN IF m.start = 0 THEN {}
       ELSE {[start |-> m.start, text |-> SubSeq(t, m.start, m.end - 1)]}
              \cup MatchPositions(t, m.end, re)

\* the move tokens of the response text that match a legal move
LegalResponseTokens ==
    LET cleanedResponse == Trim(input.responseText)
        tokens == UNION {MatchPositions(cleanedResponse, 1,
                                        moveRegexPatterns[n]) :
                            n \in 1..Len(moveRegexPatterns)}
    IN {k \in tokens : IsLegalPotentialMove(k.text, input.legalMoves)}

\* C28: when the texts hold no error phrase and several move tokens of the
\* response text are legal, extractValidChessMove returns the one that
\* comes first in the response text, whatever kinds of move the tokens are
FirstLegalTokenReturned ==
    output.kind = "extract"
      /\ ~HoldsErrorPhrase(input.responseText)
      /\ ~HoldsErrorPhrase(input.reasoningText)
      /\ LegalResponseTokens # {}
      => \E k \in LegalResponseTokens :
            /\ k.text = output.text
            /\ \A j \in LegalResponseTokens : k.start <= j.start

-----------------------------------------------------------------------------
(* The two stream parsers on a byte stream that arrives in chunks.  The    *)
(* stream is a sequence of symbols: the 'data: ' prefix, the JSON text of  *)
(* a delta in two parts (JSON.parse accepts the two parts together and     *)
(* rejects each part alone), the [DONE] mark and the line feed.  A chunk   *)
(* boundary can fall between any two symbols.                              *)

MaxRecords == 2
MaxChunks == 3

Sym(name, frag) == [sym |-> name, frag |-> frag]
DataPrefix == Sym("data: ", << >>)
LineFeed == Sym("\n", << >>)
DoneMark == Sym("[DONE]", << >>)
JsonOpen(frag) == Sym("{delta", frag)
JsonClose == Sym("}", << >>)

\* the records a vendor sends: a delta with a content fragment, or [DONE]
StreamRecords ==
    {<<DataPrefix, JsonOpen(f), JsonClose>> : f \in {<<"N">>, <<"f", "3">>}}
      \cup {<<DataPrefix, DoneMark>>}

RECURSIVE RecordStreams(_)
RecordStreams(n) ==
    IF n = 0 THEN {<< >>}
    ELSE {Append(rs, r) : rs \in RecordStreams(n - 1), r \in StreamRecords}

\* the bytes of a stream of records, a line feed after each record but,
\* when not newlineAtEnd, the last
RECURSIVE StreamBytes(_, _)
StreamBytes(records, newlineAtEnd) ==
    IF records = << >> THEN << >>
    ELSE Head(records)
           \o (IF Len(records) > 1 \/ newlineAtEnd THEN <<LineFeed>>
               ELSE << >>)
           \o StreamBytes(Tail(records), newlineAtEnd)

\* the bytes cut into chunks after the positions of cuts
RECURSIVE ChunksOf(_, _)
ChunksOf(bytes, cuts) ==
    IF cuts = {} THEN IF bytes = << >> THEN << >> ELSE <<bytes>>
    ELSE LET c == CHOOSE k \in cuts : \A j \in cuts : k <= j
         IN <<SubSeq(bytes, 1, c)>>
              \o ChunksOf(SubSeq(bytes, c + 1, Len(bytes)),
                          {k - c : k \in cuts \ {c}})

\* the ways to cut bytes into at most MaxChunks chunks
Chunkings(bytes) ==
    {ChunksOf(bytes, cuts) :
        cuts \in {cs \in SUBSET (1..(Len(bytes) - 1)) :
                     Cardinality(cs) < MaxChunks}}

ChunkInputs ==
    UNION {[kind : {"chunks"}, parser : {"openai", "grok"}, records : {rs},
            chunks : Chunkings(StreamBytes(rs, nl))] :
              rs \in UNION {RecordStreams(n) : n \in 0..MaxRecords},
              nl \in BOOLEAN}

\* String.prototype.split('\n')
RECURSIVE SplitLines(_, _)
SplitLines(bytes, line) ==
    IF bytes = << >> THEN <<line>>
    ELSE IF Head(bytes) = LineFeed
    THEN <<line>> \o SplitLines(Tail(bytes), << >>)
    ELSE SplitLines(Tail(bytes), Append(line, Head(bytes)))

\* what one line adds to the accumulated text: the line must start with
\* 'data: ', the rest must not be [DONE] and must pass JSON.parse (a parse
\* error is caught and logged)
LineContent(line) ==
    IF line = << >> \/ Head(line) # DataPrefix THEN << >>
    ELSE LET data == Tail(line)
         IN IF data = <<DoneMark>> THEN << >>
            ELSE IF Len(data) = 2 /\ data[1].sym = "{delta"
                    /\ data[2] = JsonClose
            THEN data[1].frag
            ELSE << >>

RECURSIVE LinesContent(_)
LinesContent(lines) ==
    IF lines = << >> THEN << >>
    ELSE LineContent(Head(lines)) \o LinesContent(Tail(lines))

InitChunks ==
    /\ InitGame(SamplingSettings)
    /\ input \in ChunkInputs
    /\ output = [kind |-> "chunks", read |-> 0, partialResponse |-> << >>,
                 text |-> << >>, returned |-> FALSE]

\* reader.read() gives a chunk: one round of the loop of
\* AI_MODELS.openai.parseResponse or of streamGrokResponse
ReadChunk ==
    /\ input.kind = "chunks"
    /\ ~output.returned
    /\ output.read < Len(input.chunks)
    /\ LET chunk == input.chunks[output.read + 1]
       IN IF input.parser = "openai"
          THEN LET lines == SplitLines(output.partialResponse \o chunk,
                                       << >>)
               IN output' = [output EXCEPT
                     !.read = @ + 1,
                     !.partialResponse = lines[Len(lines)],
                     !.text = @ \o LinesContent(
                                     SubSeq(lines, 1, Len(lines) - 1))]
          ELSE output' = [output EXCEPT
                     !.read = @ + 1,
                     !.text = @ \o LinesContent(SplitLines(chunk, << >>))]
    /\ UnchangedGame

\* reader.read() reports done: the loop ends with the text accumulated
ReadDone ==
    /\ input.kind = "chunks"
    /\ ~output.returned
    /\ output.read = Len(input.chunks)
    /\ output' = [output EXCEPT !.returned = TRUE]
    /\ UnchangedGame

NextChunks == ReadChunk \/ ReadDone

SpecChunks == InitChunks /\ [][NextChunks]_vars

\* the content fragments of the delta records, one after the other
RECURSIVE AllFragments(_)
AllFragments(records) ==
    IF records = << >> THEN << >>
    ELSE LineContent(Head(records)) \o AllFragments(Tail(records))

\* C29: however the stream is cut into chunks, and with or without a line
\* feed after the last record, the text accumulated when the stream ends
\* is the content fragments of all its records, in the order they came
ChunkingKeepsAllFragments ==
    output.kind = "chunks" /\ output.returned
      => output.text = AllFragments(input.records)

-----------------------------------------------------------------------------
(* GameHistory: the replay of a stored game.  The stored games are records *)
(* as saveGameToHistory builds them for finished games; output holds       *)
(* this.replay, with game the place of the loaded game in this.games (0    *)
(* for null) and did the handler that ran last.                            *)

MaxStored == 2

\* the lines of n legal moves from the start position
RECURSIVE LegalLines(_)
LegalLines(n) ==
    IF n = 0 THEN {StartPosition}
    ELSE UNION {{ChessMove(line, m).pos : m \in ChessMoves(line)} :
                   line \in LegalLines(n - 1)}

FinishedLines ==
    {line \in UNION {LegalLines(n) : n \in 0..DrawPly} : GameOver(line)}

\* the record of the game that ended with the moves of line
StoredGame(line, st) ==
    GameRecord(CheckGameStatus(
        [chess |-> line, settings |-> st,
         gameState |-> [InitialGameState EXCEPT
                           !.moveHistory = line,
                           !.currentPlayer = Opponent(Turn(line))]]))

RECURSIVE StoredGameLists(_)
StoredGameLists(n) ==
    IF n = 0 THEN {<< >>}
    ELSE {<<StoredGame(line, st)>> \o rest :
            line \in FinishedLines, st \in SamplingSettings,
            rest \in StoredGameLists(n - 1)}

\* this.replay after the constructor and initReplayBoard
InitialReplay ==
    [kind |-> "replay", game |-> 0, chess |-> StartPosition,
     currentMoveIndex |-> -1, autoPlayTimer |-> Null, autoPlaying |-> FALSE,
     did |-> "init"]

\* this.replay.game.moves
ReplayMoves(R) == games[R.game].moves

\* replay.chess.reset() followed by the moves 0..index of the game
RECURSIVE MovesApplied(_, _)
MovesApplied(moves, index) ==
    IF index < 0 THEN StartPosition
    ELSE ChessMove(MovesApplied(moves, index - 1), moves[index + 1]).pos

\* GameHistory.stopAutoReplay
StopAutoReplay(R) ==
    [R EXCEPT !.autoPlaying = FALSE, !.autoPlayTimer = Null]

\* GameHistory.loadGameForReplay, for the game at place k
LoadGameForReplay(R, k) ==
    [StopAutoReplay(R) EXCEPT !.game = k, !.chess = StartPosition,
                              !.currentMoveIndex = -1]

\* GameHistory.showNextMove
ShowNextMove(R) ==
    IF R.game = 0 \/ R.currentMoveIndex >= Len(ReplayMoves(R)) - 1 THEN R
    ELSE LET index == R.currentMoveIndex + 1
             moveResult == ChessMove(R.chess, ReplayMoves(R)[index + 1])
         IN [R EXCEPT !.currentMoveIndex = index, !.chess = moveResult.pos]

\* GameHistory.showPreviousMove
ShowPreviousMove(R) ==
    IF R.game = 0 \/ R.currentMoveIndex < 0 THEN R
    ELSE [R EXCEPT !.currentMoveIndex = @ - 1,
                   !.chess = MovesApplied(ReplayMoves(R),
                                          R.currentMoveIndex - 1)]

\* an autoPlay that does not stop after the last move
AutoPlayKeepsGoing(R) ==
    IF ~R.autoPlaying THEN R
    ELSE [ShowNextMove(R) EXCEPT !.autoPlayTimer = Armed]

\* the autoPlay closure of startAutoReplay
AutoPlay(R) ==
    IF ~R.autoPlaying THEN R
    ELSE LET S == ShowNextMove(R)
         IN IF S.currentMoveIndex < Len(ReplayMoves(S)) - 1
            THEN [S EXCEPT !.autoPlayTimer = Armed]
            ELSE StopAutoReplay(S)

\* GameHistory.startAutoReplay
StartAutoReplay(R) ==
    IF R.game = 0 THEN R
    ELSE AutoPlay(
           IF R.currentMoveIndex >= Len(ReplayMoves(R)) - 1
           THEN [R EXCEPT !.autoPlaying = TRUE, !.chess = StartPosition,
                          !.currentMoveIndex = -1]
           ELSE [R EXCEPT !.autoPlaying = TRUE])

\* GameHistory.toggleAutoReplay
ToggleAutoReplay(R) ==
    IF R.autoPlaying THEN StopAutoReplay(R) ELSE StartAutoReplay(R)

InitReplay ==
    /\ chess = StartPosition
    /\ gameState = InitialGameState
    /\ settings \in SamplingSettings
    /\ moveTimer = Null
    /\ retryCount = 0
    /\ timers = 0
    /\ inflight = EmptyBag
    /\ attempts = 0
    /\ lastOp = Did("init")
    /\ games \in UNION {StoredGameLists(n) : n \in 0..MaxStored}
    /\ input = NoCall
    /\ output = InitialReplay

ReplayStep(R, name) ==
    /\ output' = [R EXCEPT !.did = name]
    /\ UnchangedGame

\* the user picks a game in the list
LoadGame ==
    \E k \in 1..Len(games) :
        ReplayStep(LoadGameForReplay(output, k), "load")

\* the user presses Next; the button is disabled after the last move
NextMove ==
    /\ output.game # 0
    /\ output.currentMoveIndex < Len(ReplayMoves(output)) - 1
    /\ ReplayStep(ShowNextMove(output), "next")

\* the user presses Previous; the button is disabled before the first move
PreviousMove ==
    /\ output.game # 0
    /\ output.currentMoveIndex >= 0
    /\ ReplayStep(ShowPreviousMove(output), "previous")

\* the user presses the auto-replay button
AutoReplay ==
    /\ output.game # 0
    /\ ReplayStep(ToggleAutoReplay(output),
                  IF output.autoPlaying THEN "stop" ELSE "start")

\* the timer of the auto-replay fires and runs autoPlay
AutoPlayTimerFires ==
    /\ output.autoPlayTimer = Armed
    /\ ReplayStep(AutoPlay([output EXCEPT !.autoPlayTimer = Fired]), "tick")

NextReplay ==
    LoadGame \/ NextMove \/ PreviousMove \/ AutoReplay \/ AutoPlayTimerFires

SpecReplay == InitReplay /\ [][NextReplay]_vars

\* the replay shows a game, the index is within the moves of the game and
\* the position is the start position with the moves up to the index played
ReplayShowsIndex ==
    /\ -1 <= output.currentMoveIndex
    /\ output.currentMoveIndex <= Len(ReplayMoves(output)) - 1
    /\ output.chess = MovesApplied(ReplayMoves(output),
                                   output.currentMoveIndex)

AtLastMove == output.currentMoveIndex = Len(ReplayMoves(output)) - 1

\* C30 as stated: on a loaded game the index is within -1 and the number
\* of moves less one, the position is the start position with the moves up
\* to the index played, and when the last move is shown the auto-replay is
\* off and has no timer pending
ReplayStopsAtLastMove ==
    output.kind = "replay" /\ output.game # 0
      => /\ ReplayShowsIndex
         /\ AtLastMove => ~output.autoPlaying /\ output.autoPlayTimer # Armed

\* C30: on a loaded game the index is within -1 and the number of moves
\* less one and the position is the start position with the moves up to
\* the index played; the auto-replay is off with no timer pending when a
\* step of the auto-replay itself has shown the last move, and while it is
\* on its timer is pending, so that a last move shown by the Next button
\* leaves it on until that timer fires
ReplayStopsAfterOwnLastMove ==
    output.kind = "replay" /\ output.game # 0
      => /\ ReplayShowsIndex
         /\ output.autoPlaying <=> output.autoPlayTimer = Armed
         /\ AtLastMove /\ output.did \in {"start", "tick"}
              => ~output.autoPlaying

\* C30 witness: the timer of the auto-replay fired, the last move of a
\* game of two moves or more was shown and the auto-replay went off
AutoReplayReachedLastMove ==
    /\ output.kind = "replay" /\ output.game # 0
    /\ output.did = "tick"
    /\ AtLastMove /\ output.currentMoveIndex >= 1
    /\ ~output.autoPlaying /\ output.autoPlayTimer = Null

=============================================================================
